---- MODULE Spec2Model ----
(***************************************************************************)
(* Background job subsystem of goscratch: the Job envelope, the Publisher, *)
(* the Worker (consumer pool, retry/backoff, shutdown) and the two         *)
(* port.Queue transports of the repository (RabbitMQ, NoOpQueue).          *)
(***************************************************************************)
EXTENDS Integers, Sequences, FiniteSets, Bags, TLC

(***************************************************************************)
(* Bounds of the model                                                     *)
(***************************************************************************)
MaxJobs == 2          \* messages produced over one run
MaxCeiling == 1       \* largest ceiling handed to PublishWithRetry
MaxRawAttempts == 1   \* largest attempts value of a pre-built job (PublishRaw)
MaxShutdowns == 2     \* calls of Shutdown over one run
MaxShutdownJobs == 1  \* messages produced over one run that starts and stops
MaxCeilingJobs == 1   \* jobs produced over one run that explores the ceilings

(***************************************************************************)
(* Program constants                                                       *)
(***************************************************************************)
Concurrency == 2              \* worker.Config.Concurrency, as set by main
DefaultMaxRetry == 3          \* NewJob
DefaultQueueName == "jobs"    \* New / NewPublisher
JobTypeEmailSend == "email.send"
JobTypeAuditCleanup == "audit.cleanup"
JobTypeNotification == "notification.send"

JobTypes == {JobTypeEmailSend, JobTypeAuditCleanup, JobTypeNotification}
\* "bad": the handler's UnmarshalPayload rejects it
Payloads == {"good", "bad"}
\* the (type, payload) pairs handed to the publisher
Inputs == {<<JobTypeEmailSend, "good">>, <<JobTypeEmailSend, "bad">>,
           <<JobTypeNotification, "good">>}
Loops == 1..Concurrency
\* the values of Config.Concurrency handed to New
CfgConcurrencies == {0 - 1, 0, 1, Concurrency}
JobIDs == 1..MaxJobs
NoJob == [ID |-> 0]
\* a payload json.Marshal cannot encode
UnmarshalableInputs == {<<JobTypeNotification, "unmarshalable">>}
\* the pairs published with a ceiling of the caller (PublishWithRetry)
RetryInputs == {<<JobTypeEmailSend, "bad">>}
\* the (type, payload) pairs of the pre-built jobs handed to PublishRaw
RawInputs == {<<JobTypeAuditCleanup, "good">>, <<JobTypeNotification, "good">>}
\* an attempts value on the edge of the range of the backoff arithmetic
LargeAttempts == 96038
NotJSON == [raw |-> "not-json"]
NoMsg == [raw |-> ""]

\* port.Queue.Publish arguments the Worker was constructed with
QueueName == DefaultQueueName
Exchange == ""

(***************************************************************************)
(* Job envelope                                                            *)
(***************************************************************************)
\* time.Now(): wall clock reading plus a monotonic reading (mono # 0)
TimeNow(id) == [wall |-> 100 + id, mono |-> 1]

NewJob(id, jobType, payload) ==
    [ID |-> id, Type |-> jobType, Payload |-> payload, Attempts |-> 0,
     MaxRetry |-> DefaultMaxRetry, CreatedAt |-> TimeNow(id)]

NewJobWithRetry(id, jobType, payload, maxRetry) ==
    [NewJob(id, jobType, payload) EXCEPT !.MaxRetry = maxRetry]

\* mutation: the time is written with a coarser unit than it is kept in
Encode_CoarseTime(j) ==
    [id |-> j.ID, type |-> j.Type, payload |-> j.Payload,
     attempts |-> j.Attempts, max_retry |-> j.MaxRetry,
     created_at |-> (j.CreatedAt.wall \div 10) * 10]

\* json.Marshal(j): the wire record; a time.Time is written as its wall
\* clock reading only, to the nanosecond (RFC 3339)
Encode(j) ==
    [id |-> j.ID, type |-> j.Type, payload |-> j.Payload,
     attempts |-> j.Attempts, max_retry |-> j.MaxRetry,
     created_at |-> j.CreatedAt.wall]

DecodeFails(body) == "raw" \in DOMAIN body

\* mutation: the attempts counter does not survive the wire
DecodeJob_AttemptsReset(body) ==
    [ID |-> body.id, Type |-> body.type, Payload |-> body.payload,
     Attempts |-> 0, MaxRetry |-> body.max_retry,
     CreatedAt |-> [wall |-> body.created_at, mono |-> 0]]

\* json.Unmarshal(data, &job): a decoded time carries no monotonic reading
DecodeJob(body) ==
    [ID |-> body.id, Type |-> body.type, Payload |-> body.payload,
     Attempts |-> body.attempts, MaxRetry |-> body.max_retry,
     CreatedAt |-> [wall |-> body.created_at, mono |-> 0]]

\* mutation: the ceiling itself still counts as retryable
CanRetry_Inclusive(j) == j.Attempts <= j.MaxRetry

CanRetry(j) == j.Attempts < j.MaxRetry

\* mutation: the counter is not advanced
IncrementAttempts_Skipped(j) == j

IncrementAttempts(j) == [j EXCEPT !.Attempts = @ + 1]


(***************************************************************************)
(* Handlers registered by main                                             *)
(***************************************************************************)
HandlerNames == {"EmailHandler", "AuditCleanupHandler"}
NoHandler == "none"
\* one more JobHandler whose Type() is also "email.send"; its Handle accepts
\* every payload
SecondEmailHandler == "SecondEmailHandler"
AllHandlers == HandlerNames \cup {SecondEmailHandler}

\* JobHandler.Type()
HandlerType(h) ==
    IF h = "AuditCleanupHandler" THEN JobTypeAuditCleanup ELSE JobTypeEmailSend

\* the handlers that hand their ctx on to a blocking call (db.Exec)
Cooperative(h) == h = "AuditCleanupHandler"

\* JobHandler.Handle(ctx, job): what the handler can return, nil or the
\* cause of its error, ctxErr being what its ctx reports at the blocking
\* call. EmailHandler fails exactly when it rejects the payload; the audit
\* cleanup also fails when db.Exec fails, on the database or on its ctx.
HandleResults(h, j, ctxErr) ==
    IF h = SecondEmailHandler THEN {"nil"}
    ELSE IF j.Payload = "bad" THEN {"unmarshal"}
    ELSE IF h = "EmailHandler" THEN {"nil"}
    ELSE IF ctxErr # "nil" THEN {ctxErr}
    ELSE {"nil", "exec"}

(***************************************************************************)
(* State                                                                   *)
(***************************************************************************)
VARIABLES
    queueKind,   \* which port.Queue the process was wired with
    cfgConcurrency,  \* Config.Concurrency as handed to New
    concurrency, \* Worker.concurrency
    declared,    \* result of the DeclareQueue call made by Start
    startResult, \* what Start returned to its caller
    consumeErr,  \* what Queue.Consume returned in each consume goroutine
    lastRegistered,  \* history: per type, the handler registered last
    everRegistered,  \* history: the handlers RegisterHandler was called with
    lastCall,    \* history: the last call of the Publisher and what it returned
    handlers,    \* Worker.handlers: job type -> handler
    started,     \* Start() has been called
    cancelled,   \* Worker.ctx is done (Worker.cancel was called)
    wg,          \* Worker.wg counter
    loop,        \* position of each Worker.consume goroutine
    consumer,    \* position of each RabbitMQ.Consume delivery goroutine
    cur,         \* job held by the handler call in flight in each consumer
    delivery,    \* message each consumer received and has not settled yet
    queue,       \* the broker's queue QueueName
    retries,     \* detached retry goroutines sleeping before their publish
    shut,        \* position of the caller of Shutdown
    shutCalls,   \* calls of Shutdown made so far
    deadlineExpired,  \* the ctx handed to Shutdown is done
    shutLog,     \* history: what each completed call of Shutdown returned
    nextID,      \* next fresh job id
    origin,      \* history: the envelope each job was first published with
    hist,        \* history: per job, the decoded deliveries and their outcome
    repub,       \* history: per job, each retry publish, its delay and result
    acked,       \* history: deliveries acknowledged by the transport
    nacked,      \* history: deliveries rejected and requeued by the transport
    dropped,     \* history: undecodable deliveries dropped
    lastPublish, \* history: the last Queue.Publish call made by a retry
    running,     \* history: handler invocations in progress
    pinned       \* history: handler calls in flight since Shutdown was called

vars == <<queueKind, cfgConcurrency, concurrency, declared, startResult,
          consumeErr, lastRegistered, everRegistered, lastCall, handlers, started, cancelled, wg, loop, consumer, cur,
          delivery, queue, retries, shut, shutCalls, deadlineExpired, shutLog,
          nextID,
          origin, hist, repub, acked, nacked, dropped, lastPublish,
          running, pinned>>

wiring == <<queueKind, cfgConcurrency, concurrency>>
startVars == <<declared, startResult>>
registryVars == <<lastRegistered, everRegistered>>
workerVars == <<handlers, started, cancelled, wg, loop, consumeErr>>
transportVars == <<consumer, cur, delivery, queue>>
shutdownVars == <<shut, shutCalls, deadlineExpired, shutLog>>
historyVars == <<origin, hist, repub, acked, nacked, dropped, lastPublish,
                 running, pinned>>

NoPublish == [by |-> "none"]
NoCall == [op |-> "none"]
NoArg == "none"     \* the call takes no ceiling

\* New: if cfg.Concurrency <= 0 { cfg.Concurrency = 1 }
NewConcurrency(c) == IF c <= 0 THEN 1 ELSE c

\* New(queue, log, cfg) followed by no call yet
Init ==
    /\ queueKind \in {"rabbitmq", "noop"}
    /\ cfgConcurrency \in CfgConcurrencies
    /\ concurrency = NewConcurrency(cfgConcurrency)
    /\ declared = "none"
    /\ startResult = "none"
    /\ consumeErr = [i \in Loops |-> "none"]
    /\ lastRegistered = [t \in JobTypes |-> NoHandler]
    /\ everRegistered = {}
    /\ lastCall = NoCall
    /\ handlers = [t \in JobTypes |-> NoHandler]
    /\ started = FALSE
    /\ cancelled = FALSE
    /\ wg = 0
    /\ loop = [i \in Loops |-> "none"]
    /\ consumer = [i \in Loops |-> "none"]
    /\ cur = [i \in Loops |-> NoJob]
    /\ delivery = [i \in Loops |-> NoMsg]
    /\ queue = <<>>
    /\ retries = EmptyBag
    /\ shut = "idle"
    /\ shutCalls = 0
    /\ deadlineExpired = FALSE
    /\ shutLog = <<>>
    /\ nextID = 1
    /\ origin = [id \in JobIDs |-> NoJob]
    /\ hist = [id \in JobIDs |-> <<>>]
    /\ repub = [id \in JobIDs |-> <<>>]
    /\ acked = 0
    /\ nacked = 0
    /\ dropped = 0
    /\ lastPublish = NoPublish
    /\ running = 0
    /\ pinned = {}

(***************************************************************************)
(* Queue transport                                                         *)
(***************************************************************************)
\* RabbitMQ.Publish / NoOpQueue.Publish when the call succeeds: the default
\* exchange routes a message to the queue named by its routing key
Route(q, exchange, routingKey, body) ==
    IF queueKind = "rabbitmq" /\ exchange = "" /\ routingKey = QueueName
    THEN Append(q, body) ELSE q

\* the outcomes of one Queue.Publish call
PublishOutcomes == IF queueKind = "rabbitmq" THEN {"nil", "err"} ELSE {"nil"}

(***************************************************************************)
(* Publisher                                                               *)
(***************************************************************************)
\* the Queue.Publish call made by Publisher for an already built job
PublishRawCall(j) ==
    [exchange |-> Exchange, routingKey |-> QueueName, body |-> Encode(j)]

\* NewJob: json.Marshal(payload) fails (a channel, a func, a cyclic value)
NewJobFails(payload) == payload = "unmarshalable"

\* Job.Encode: json.Marshal(j) fails when the RawMessage of a hand-built job
\* is not valid JSON
EncodeFails(j) == j.Payload = "invalid-raw"

\* mutation: the error of the transport is dropped
PublisherReturn_Swallowed(stage, err) ==
    IF err = "nil" \/ stage = "publish" THEN "nil"
    ELSE "failed to " \o stage \o " job"

\* what the Publisher returns: nil, or the error of the failed stage wrapped
PublisherReturn(stage, err) ==
    IF err = "nil" THEN "nil" ELSE "failed to " \o stage \o " job"

\* Publish / PublishWithRetry when NewJob / NewJobWithRetry fails; keep:
\* the caller holds on to what the call returned
PublisherCreateFails(op, arg, keep) ==
    /\ nextID <= MaxJobs
    /\ lastCall' = IF keep
                   THEN [op |-> op, arg |-> arg, calls |-> <<>>,
                         res |-> PublisherReturn("create", "err")]
                   ELSE lastCall
    /\ UNCHANGED <<wiring, registryVars, startVars, workerVars, transportVars,
                   retries, shutdownVars, nextID, historyVars>>

\* the rest of a Publisher call once the job is built: Encode, then one
\* Queue.Publish whose error is returned
PublisherSend(op, arg, j, keep) ==
    /\ nextID <= MaxJobs
    /\ IF EncodeFails(j)
       THEN /\ lastCall' = IF keep
                           THEN [op |-> op, arg |-> arg, calls |-> <<>>,
                                 res |-> PublisherReturn("encode", "err")]
                           ELSE lastCall
            /\ UNCHANGED <<queue, origin, nextID>>
       ELSE \E res \in PublishOutcomes :
              /\ queue' = IF res = "nil"
                          THEN Route(queue, Exchange, QueueName, Encode(j))
                          ELSE queue
              /\ origin' = IF res = "nil" THEN [origin EXCEPT ![j.ID] = j]
                           ELSE origin
              /\ nextID' = IF res = "nil" THEN nextID + 1 ELSE nextID
              /\ lastCall' = IF keep
                             THEN [op |-> op, arg |-> arg,
                                   calls |-> <<PublishRawCall(j)>>,
                                   res |-> PublisherReturn("publish", res)]
                             ELSE lastCall
    /\ UNCHANGED lastPublish
    /\ UNCHANGED <<wiring, registryVars, startVars, workerVars, consumer, cur,
                   delivery, retries, shutdownVars, hist, repub, acked, nacked,
                   dropped, running, pinned>>

PublishBy(keep) ==
    \E in \in Inputs \cup UnmarshalableInputs :
        IF NewJobFails(in[2]) THEN PublisherCreateFails("Publish", NoArg, keep)
        ELSE PublisherSend("Publish", NoArg, NewJob(nextID, in[1], in[2]), keep)

PublishWithRetryBy(keep) ==
    \E in \in RetryInputs \cup UnmarshalableInputs, m \in 0..MaxCeiling :
        IF NewJobFails(in[2])
        THEN PublisherCreateFails("PublishWithRetry", m, keep)
        ELSE PublisherSend("PublishWithRetry", m,
                           NewJobWithRetry(nextID, in[1], in[2], m), keep)

\* the pre-built jobs handed to PublishRaw: attempts already advanced by
\* the caller, a job that has nearly used up a very large ceiling, and a
\* job whose payload bytes are not JSON
RawJobs(id) ==
    {[NewJob(id, in[1], in[2]) EXCEPT !.Attempts = a] :
        in \in RawInputs, a \in 1..MaxRawAttempts}
    \cup {[NewJobWithRetry(id, JobTypeEmailSend, "bad", LargeAttempts + 2)
              EXCEPT !.Attempts = LargeAttempts]}
    \cup {NewJob(id, JobTypeEmailSend, "invalid-raw")}

PublishRawBy(keep) ==
    \E j \in RawJobs(nextID) : PublisherSend("PublishRaw", NoArg, j, keep)

\* the calls of a producer that goes on whatever they return
Publish == PublishBy(FALSE)
PublishWithRetry == PublishWithRetryBy(FALSE)
PublishRaw == PublishRawBy(FALSE)

\* the calls of a producer that holds on to what they return
PublishReturns == PublishBy(TRUE)
PublishWithRetryReturns == PublishWithRetryBy(TRUE)
PublishRawReturns == PublishRawBy(TRUE)

\* another producer puts bytes on the queue that are not a Job envelope
PublishMalformed ==
    /\ queueKind = "rabbitmq"
    /\ nextID <= MaxJobs
    /\ nextID' = nextID + 1
    /\ queue' = Append(queue, NotJSON)
    /\ UNCHANGED <<wiring, registryVars, startVars, lastCall,
                   workerVars, consumer, cur, delivery, retries,
                   shutdownVars, historyVars>>

(***************************************************************************)
(* Worker                                                                  *)
(***************************************************************************)
\* mutation: a type that has a handler keeps it
Register_KeepFirst(hs, h) ==
    IF hs[HandlerType(h)] = NoHandler
    THEN [hs EXCEPT ![HandlerType(h)] = h] ELSE hs

\* w.handlers[handler.Type()] = handler
Register(hs, h) == [hs EXCEPT ![HandlerType(h)] = h]

\* RegisterHandler(handler); main registers its handlers first of all
RegisterHandler(h) ==
    /\ ~started /\ nextID = 1 /\ shutCalls = 0
    /\ handlers' = Register(handlers, h)
    /\ lastRegistered' = [lastRegistered EXCEPT ![HandlerType(h)] = h]
    /\ everRegistered' = everRegistered \cup {h}
    /\ UNCHANGED <<wiring, startVars, lastCall, started, cancelled, wg, loop,
                   consumeErr, transportVars, retries, shutdownVars, nextID,
                   historyVars>>

\* the outcomes of Queue.DeclareQueue
DeclareOutcomes == IF queueKind = "rabbitmq" THEN {"nil", "err"} ELSE {"nil"}

\* mutation: a failed declaration stops Start before its loop
LaunchLoops_DeclareFatal(d) ==
    IF d = "err"
    THEN UNCHANGED <<wg, loop>>
    ELSE /\ wg' = wg + concurrency
         /\ loop' = [i \in Loops |-> IF i <= concurrency THEN "started"
                                                           ELSE loop[i]]

\* Start: for i := 0; i < w.concurrency; i++ { w.wg.Add(1); go w.consume(i) },
\* whatever DeclareQueue returned
LaunchLoops(d) ==
    /\ wg' = wg + concurrency
    /\ loop' = [i \in Loops |-> IF i <= concurrency THEN "started" ELSE loop[i]]

\* Start: its only return statement is "return nil"
StartReturn(d) == "nil"

\* Start(): DeclareQueue is best effort, then one goroutine per unit of
\* concurrency, each counted in wg before it runs. main calls it after it
\* registered its handlers, from the goroutine that later calls Shutdown
Start ==
    /\ ~started
    /\ shut # "waiting"
    /\ \A h \in HandlerNames : handlers[HandlerType(h)] # NoHandler
    /\ \E d \in DeclareOutcomes :
         /\ declared' = d
         /\ LaunchLoops(d)
         /\ startResult' = StartReturn(d)
    /\ started' = TRUE
    /\ UNCHANGED <<wiring, registryVars, lastCall, handlers, cancelled,
                   consumeErr, transportVars, retries, shutdownVars, nextID,
                   historyVars>>

\* mutation: a loop whose Consume failed is not reported to the WaitGroup
ConsumeDone_OnSuccessOnly(res) == IF res = "nil" THEN wg - 1 ELSE wg

\* consume: defer w.wg.Done(), whatever Queue.Consume returned
ConsumeDone(res) == wg - 1

\* consume(workerID) over RabbitMQ.Consume: the consumer is registered (or
\* the registration fails), the delivery goroutine is spawned and Consume
\* returns at once, so consume logs and runs its deferred wg.Done
ConsumeRabbitMQ(i) ==
    /\ queueKind = "rabbitmq"
    /\ loop[i] = "started"
    /\ \E res \in {"nil", "err"} :
         /\ consumer' = IF res = "nil" THEN [consumer EXCEPT ![i] = "idle"]
                        ELSE consumer
         /\ consumeErr' = [consumeErr EXCEPT ![i] = res]
         /\ wg' = ConsumeDone(res)
    /\ loop' = [loop EXCEPT ![i] = "exited"]
    /\ UNCHANGED <<wiring, registryVars, startVars, lastCall,
                   handlers, started, cancelled, cur, delivery,
                   queue, retries, shutdownVars, nextID, historyVars>>

\* consume(workerID) over NoOpQueue.Consume: blocks on ctx.Done()
ConsumeNoOp(i) ==
    /\ queueKind = "noop"
    /\ loop[i] = "started"
    /\ loop' = [loop EXCEPT ![i] = "blocked"]
    /\ UNCHANGED <<wiring, registryVars, startVars, lastCall,
                   handlers, started, cancelled, wg, consumeErr,
                   transportVars, retries, shutdownVars, nextID, historyVars>>

\* NoOpQueue.Consume returns ctx.Err(); consume logs it and runs wg.Done
ConsumeNoOpReturn(i) ==
    /\ loop[i] = "blocked"
    /\ cancelled
    /\ loop' = [loop EXCEPT ![i] = "exited"]
    /\ wg' = ConsumeDone("err")
    /\ consumeErr' = [consumeErr EXCEPT ![i] = "err"]
    /\ UNCHANGED <<wiring, registryVars, startVars, lastCall,
                   handlers, started, cancelled, transportVars,
                   retries, shutdownVars, nextID, historyVars>>

\* RabbitMQ.Consume goroutine: case <-ctx.Done()
ConsumerStop(i) ==
    /\ consumer[i] = "idle"
    /\ cancelled
    /\ consumer' = [consumer EXCEPT ![i] = "stopped"]
    /\ UNCHANGED <<wiring, registryVars, startVars, lastCall,
                   workerVars, cur, delivery, queue, retries,
                   shutdownVars, nextID, historyVars>>

\* mutation: a handler failure is handed to the transport
HandleMessageResult_FailureReturned(path) ==
    IF path \in {"retry", "abandoned"} THEN "err" ELSE "nil"

\* mutation: a decode failure is handed to the transport
HandleMessageResult_DecodeReturned(path) ==
    IF path = "decode" THEN "err" ELSE "nil"

\* mutation: a missing handler is handed to the transport
HandleMessageResult_UnroutableReturned(path) ==
    IF path = "nohandler" THEN "err" ELSE "nil"

\* what handleMessage returns to the transport on each of its paths
HandleMessageResult(path) == "nil"

\* mutation: the loop goes on to its next message with the acknowledgement
\* of this one still to be sent
Settle_AckDeferred(i, body, q, ret) ==
    /\ delivery' = [delivery EXCEPT ![i] = body]
    /\ queue' = q
    /\ UNCHANGED <<acked, nacked>>

\* mutation: the acknowledgement is not sent and the broker redelivers
Settle_AckLost(i, body, q, ret) ==
    /\ delivery' = [delivery EXCEPT ![i] = NoMsg]
    /\ queue' = <<body>> \o q
    /\ UNCHANGED <<acked, nacked>>

\* RabbitMQ.Consume goroutine after handler(msg.Body) returned ret:
\* msg.Ack(false) on nil, msg.Nack(false, true) (requeue) otherwise
Settle(i, body, q, ret) ==
    /\ delivery' = [delivery EXCEPT ![i] = NoMsg]
    /\ IF ret = "nil"
       THEN /\ acked' = acked + 1
            /\ queue' = q
            /\ UNCHANGED nacked
       ELSE /\ nacked' = nacked + 1
            /\ queue' = <<body>> \o q
            /\ UNCHANGED acked

\* k*k as two limbs, k*k = SquareHi(k) * Limb + SquareLo(k), for k < Limb
Limb == 1000000
SquareCarry(k) == 2 * (k \div 1000) * (k % 1000) * 1000 + (k % 1000) * (k % 1000)
SquareHi(k) == (k \div 1000) * (k \div 1000) + SquareCarry(k) \div Limb
SquareLo(k) == SquareCarry(k) % Limb

\* the largest count of seconds a time.Duration (int64 nanoseconds) holds,
\* (2^63 - 1) \div 10^9 = 9223372036, as two limbs
MaxDurationSecondsHi == 9223
MaxDurationSecondsLo == 372036

\* time.Duration(k*k) * time.Second leaves the range of int64
DurationOverflows(k) ==
    \/ SquareHi(k) > MaxDurationSecondsHi
    \/ SquareHi(k) = MaxDurationSecondsHi /\ SquareLo(k) > MaxDurationSecondsLo

\* a Duration below zero: time.Sleep returns at once
NegativeDuration == 0 - 1

\* mutation: the delay grows linearly with the attempts
Backoff_Linear(k) == k

\* delay := time.Duration(job.Attempts*job.Attempts) * time.Second, in
\* seconds. The product wraps around in int64; for the attempts values of
\* the model that overflow (k*k*10^9 < 2^64) the wrapped value is negative
Backoff(k) == IF DurationOverflows(k) THEN NegativeDuration ELSE k * k

\* mutation: the retry re-sends the message as it was delivered
RetryJob_Stale(j, body) ==
    [data |-> body, delay |-> Backoff(j.Attempts), from |-> body]

\* retryJob(job): the detached goroutine it leaves behind
RetryJob(j, body) ==
    [data |-> Encode(j), delay |-> Backoff(j.Attempts), from |-> body]

\* mutation: one handler call at a time over all loops
AtSelect_OneHandlerAtATime(i) ==
    /\ consumer[i] = "idle"
    /\ \A j \in Loops : consumer[j] # "handling"

\* the delivery goroutine of loop i is at its select: it called no handler
\* or its handler has returned; the other loops play no part
AtSelect(i) == consumer[i] = "idle"

\* RabbitMQ.Consume goroutine: case msg := <-msgs (the broker hands over the
\* head of the queue), then handleMessage up to the call of handler.Handle
HandleMessageBegin(i) ==
    /\ AtSelect(i)
    /\ queue # <<>>
    /\ LET body == Head(queue)
       IN  IF DecodeFails(body)
           THEN /\ Settle(i, body, Tail(queue), HandleMessageResult("decode"))
                /\ dropped' = dropped + 1
                /\ UNCHANGED <<consumer, cur, hist, running>>
           ELSE LET job == IncrementAttempts(DecodeJob(body))
                IN  IF handlers[job.Type] = NoHandler
                    THEN /\ Settle(i, body, Tail(queue),
                                   HandleMessageResult("nohandler"))
                         /\ hist' = [hist EXCEPT ![job.ID] = Append(@,
                                [attempts |-> job.Attempts,
                                 outcome |-> "unroutable",
                                 by |-> NoHandler, cause |-> "nil",
                                 ctx |-> "nil", stopping |-> cancelled])]
                         /\ UNCHANGED <<consumer, cur, dropped, running>>
                    ELSE /\ consumer' = [consumer EXCEPT ![i] = "handling"]
                         /\ cur' = [cur EXCEPT ![i] = job]
                         /\ delivery' = [delivery EXCEPT ![i] = body]
                         /\ queue' = Tail(queue)
                         /\ running' = running + 1
                         /\ UNCHANGED <<acked, nacked, dropped, hist>>
    /\ UNCHANGED <<wiring, registryVars, startVars, lastCall,
                   workerVars, retries, shutdownVars, nextID,
                   origin, repub, lastPublish, pinned>>

\* mutation: the failure is logged and nothing is started
ScheduleRetry_None(j, body) == EmptyBag

\* mutation: two goroutines are started for one failure
ScheduleRetry_Twice(j, body) ==
    SetToBag({RetryJob(j, body)}) (+) SetToBag({RetryJob(j, body)})

\* retryJob starts one goroutine for the failure it is called with
ScheduleRetry(j, body) == SetToBag({RetryJob(j, body)})

\* mutation: the handler's ctx is not derived from the Worker's
HandlerCtxErrs_Detached(h) ==
    IF Cooperative(h) THEN {"nil", "deadline exceeded"} ELSE {"nil"}

\* ctx, cancel := context.WithTimeout(w.ctx, 5*time.Minute): what ctx.Err()
\* reports to the handler at its blocking call (for a handler without one,
\* when it returns, its deadline aside). A ctx whose deadline passed before
\* w.cancel() keeps reporting the deadline
HandlerCtxErrs(h) ==
    IF cancelled
    THEN IF Cooperative(h) THEN {"canceled", "deadline exceeded"}
         ELSE {"canceled"}
    ELSE IF Cooperative(h) THEN {"nil", "deadline exceeded"}
    ELSE {"nil"}

\* mutation: a payload the handler rejects is dropped like a message that
\* does not decode
HandleOutcome_PayloadDropped(job, err) ==
    IF err = "nil" THEN "success"
    ELSE IF err = "unmarshal" THEN "abandoned"
    ELSE IF CanRetry(job) THEN "retry" ELSE "abandoned"

\* handleMessage after Handle returned err: if err != nil, retry while
\* job.CanRetry(), whatever the error is
HandleOutcome(job, err) ==
    IF err = "nil" THEN "success"
    ELSE IF CanRetry(job) THEN "retry" ELSE "abandoned"

\* mutation: the backoff is slept through in the loop that met the failure
AfterHandleMessage_InlineBackoff(outcome) ==
    IF outcome = "retry" THEN "sleeping" ELSE "idle"

\* where the delivery goroutine is once handleMessage has returned and the
\* delivery is settled: back at its select, whatever the outcome (retryJob
\* leaves the sleep to a goroutine of its own)
AfterHandleMessage(outcome) == "idle"

\* handler.Handle returns; the rest of handleMessage, then the ack
HandlerReturn(i) ==
    /\ consumer[i] = "handling"
    /\ \E ctxErr \in HandlerCtxErrs(handlers[cur[i].Type]) :
       \E err \in HandleResults(handlers[cur[i].Type], cur[i], ctxErr) :
         LET job == cur[i]
             outcome == HandleOutcome(job, err)
         IN  /\ retries' = IF outcome = "retry"
                           THEN retries (+) ScheduleRetry(job, delivery[i])
                           ELSE retries
             /\ hist' = [hist EXCEPT ![job.ID] = Append(@,
                            [attempts |-> job.Attempts, outcome |-> outcome,
                             by |-> handlers[job.Type], cause |-> err,
                             ctx |-> ctxErr, stopping |-> cancelled])]
             /\ Settle(i, delivery[i], queue, HandleMessageResult(outcome))
             /\ consumer' = [consumer EXCEPT ![i] = AfterHandleMessage(outcome)]
    /\ cur' = [cur EXCEPT ![i] = NoJob]
    /\ running' = running - 1
    /\ pinned' = pinned \ {i}
    /\ UNCHANGED <<wiring, registryVars, startVars, lastCall,
                   workerVars, shutdownVars, nextID, origin, repub,
                   dropped, lastPublish>>

\* the goroutine left by retryJob wakes up and publishes
RetryFire ==
    \E r \in BagToSet(retries) : \E res \in PublishOutcomes :
        /\ retries' = retries (-) SetToBag({r})
        /\ queue' = IF res = "nil"
                    THEN Route(queue, Exchange, QueueName, r.data)
                    ELSE queue
        /\ repub' = [repub EXCEPT ![r.data.id] = Append(@,
                        [attempts |-> r.data.attempts, res |-> res,
                         delay |-> r.delay, during |-> shut])]
        /\ lastPublish' = [by |-> "retry", from |-> r.from,
                           call |-> [exchange |-> Exchange,
                                     routingKey |-> QueueName,
                                     body |-> r.data]]
        /\ UNCHANGED <<wiring, registryVars, startVars, lastCall,
                   workerVars, consumer, cur, delivery,
                       shutdownVars, nextID, origin, hist, acked, nacked,
                       dropped, running, pinned>>

\* mutation: only the first call is served, a later one fails
ShutdownCall_OnceOnly ==
    /\ shut \in {"idle", "nil", "timeout"}
    /\ shutCalls < MaxShutdowns
    /\ shutCalls' = shutCalls + 1
    /\ cancelled' = TRUE
    /\ shut' = IF shutCalls = 0 THEN "waiting" ELSE "failed"
    /\ deadlineExpired' = FALSE
    /\ pinned' = {i \in Loops : consumer[i] = "handling"}
    /\ UNCHANGED <<wiring, registryVars, startVars, lastCall,
                   handlers, started, wg, loop, consumeErr, shutLog,
                   transportVars, retries, nextID, origin, hist, repub, acked,
                   nacked, dropped, lastPublish, running>>

\* mutation: Shutdown gives up the retries that have not fired
ShutdownCall_RetriesCancelled ==
    /\ shut \in {"idle", "nil", "timeout"}
    /\ shutCalls < MaxShutdowns
    /\ shutCalls' = shutCalls + 1
    /\ cancelled' = TRUE
    /\ shut' = "waiting"
    /\ deadlineExpired' = FALSE
    /\ pinned' = {i \in Loops : consumer[i] = "handling"}
    /\ retries' = EmptyBag
    /\ UNCHANGED <<wiring, registryVars, startVars, lastCall,
                   handlers, started, wg, loop, consumeErr, shutLog,
                   transportVars, nextID, origin, hist, repub, acked,
                   nacked, dropped, lastPublish, running>>

\* Shutdown(ctx) up to its select: w.cancel(), then the goroutine on wg.Wait
ShutdownCall ==
    /\ shut \in {"idle", "nil", "timeout"}
    /\ shutCalls < MaxShutdowns
    /\ shutCalls' = shutCalls + 1
    /\ cancelled' = TRUE
    /\ shut' = "waiting"
    /\ deadlineExpired' = FALSE
    /\ pinned' = {i \in Loops : consumer[i] = "handling"}
    /\ UNCHANGED <<wiring, registryVars, startVars, lastCall,
                   handlers, started, wg, loop, consumeErr, shutLog,
                   transportVars, retries, nextID, origin, hist, repub, acked,
                   nacked, dropped, lastPublish, running>>

\* the deadline of the ctx handed to Shutdown passes
DeadlineExpire ==
    /\ shut = "waiting"
    /\ ~deadlineExpired
    /\ deadlineExpired' = TRUE
    /\ UNCHANGED <<wiring, registryVars, startVars, lastCall,
                   workerVars, transportVars, retries, shut, shutCalls,
                   shutLog, nextID, historyVars>>

\* what a call of Shutdown leaves in the log when it returns
ShutdownReturned(res) ==
    Append(shutLog, [res |-> res, started |-> started,
                     expired |-> deadlineExpired])

\* mutation: Shutdown does not wait for the WaitGroup
ShutdownReturnNil_NoWait ==
    /\ shut = "waiting"
    /\ shut' = "nil"
    /\ shutLog' = ShutdownReturned("nil")
    /\ UNCHANGED <<wiring, registryVars, startVars, lastCall,
                   workerVars, transportVars, retries, shutCalls,
                   deadlineExpired, nextID, historyVars>>

\* Shutdown: case <-done, wg.Wait() returned
ShutdownReturnNil ==
    /\ shut = "waiting"
    /\ wg = 0
    /\ shut' = "nil"
    /\ shutLog' = ShutdownReturned("nil")
    /\ UNCHANGED <<wiring, registryVars, startVars, lastCall,
                   workerVars, transportVars, retries, shutCalls,
                   deadlineExpired, nextID, historyVars>>

\* Shutdown: case <-ctx.Done()
ShutdownReturnTimeout ==
    /\ shut = "waiting"
    /\ deadlineExpired
    /\ shut' = "timeout"
    /\ shutLog' = ShutdownReturned("context deadline exceeded")
    /\ UNCHANGED <<wiring, registryVars, startVars, lastCall,
                   workerVars, transportVars, retries, shutCalls,
                   deadlineExpired, nextID, historyVars>>

Next ==
    \/ Publish
    \/ PublishWithRetry
    \/ PublishRaw
    \/ PublishMalformed
    \/ \E h \in HandlerNames : RegisterHandler(h)
    \/ Start
    \/ \E i \in Loops : ConsumeRabbitMQ(i)
    \/ \E i \in Loops : ConsumeNoOp(i)
    \/ \E i \in Loops : ConsumeNoOpReturn(i)
    \/ \E i \in Loops : ConsumerStop(i)
    \/ \E i \in Loops : HandleMessageBegin(i)
    \/ \E i \in Loops : HandlerReturn(i)
    \/ RetryFire
    \/ ShutdownCall
    \/ DeadlineExpire
    \/ ShutdownReturnNil
    \/ ShutdownReturnTimeout

Spec == Init /\ [][Next]_vars

(***************************************************************************)
(* The Worker in steady state: main has registered its handlers and called *)
(* Start over RabbitMQ, every consume goroutine has registered its         *)
(* consumer and returned, and jobs are produced, handled and retried.      *)
(***************************************************************************)
InitRunning ==
    /\ queueKind = "rabbitmq"
    /\ cfgConcurrency = Concurrency
    /\ concurrency = NewConcurrency(cfgConcurrency)
    /\ declared = "nil"
    /\ startResult = "nil"
    /\ consumeErr = [i \in Loops |-> "nil"]
    /\ handlers = [t \in JobTypes |->
                     IF \E h \in HandlerNames : HandlerType(h) = t
                     THEN CHOOSE h \in HandlerNames : HandlerType(h) = t
                     ELSE NoHandler]
    /\ lastRegistered = handlers
    /\ everRegistered = HandlerNames
    /\ lastCall = NoCall
    /\ started = TRUE
    /\ cancelled = FALSE
    /\ wg = 0
    /\ loop = [i \in Loops |-> "exited"]
    /\ consumer = [i \in Loops |-> "idle"]
    /\ cur = [i \in Loops |-> NoJob]
    /\ delivery = [i \in Loops |-> NoMsg]
    /\ queue = <<>>
    /\ retries = EmptyBag
    /\ shut = "idle"
    /\ shutCalls = 0
    /\ deadlineExpired = FALSE
    /\ shutLog = <<>>
    /\ nextID = 1
    /\ origin = [id \in JobIDs |-> NoJob]
    /\ hist = [id \in JobIDs |-> <<>>]
    /\ repub = [id \in JobIDs |-> <<>>]
    /\ acked = 0
    /\ nacked = 0
    /\ dropped = 0
    /\ lastPublish = NoPublish
    /\ running = 0
    /\ pinned = {}

NextJobs ==
    \/ Publish
    \/ PublishWithRetry
    \/ PublishRaw
    \/ PublishMalformed
    \/ \E i \in Loops : HandleMessageBegin(i)
    \/ \E i \in Loops : HandlerReturn(i)
    \/ RetryFire

SpecJobs == InitRunning /\ [][NextJobs]_vars

(***************************************************************************)
(* A running Worker on RabbitMQ and a producer that picks the ceiling of   *)
(* its first jobs, zero and negative ceilings included.                    *)
(***************************************************************************)
Ceilings == (0 - 1)..(MaxCeiling + 2)

\* a job whose handler always fails, a job whose handler fails or not, and
\* a job of a type without handler
CeilingInputs == {<<JobTypeEmailSend, "bad">>, <<JobTypeAuditCleanup, "good">>,
                  <<JobTypeNotification, "good">>}

PublishWithCeiling ==
    /\ nextID <= MaxCeilingJobs
    /\ \E in \in CeilingInputs, m \in Ceilings :
        PublisherSend("PublishWithRetry", m,
                      NewJobWithRetry(nextID, in[1], in[2], m), FALSE)

NextCeilings ==
    \/ PublishWithCeiling
    \/ \E i \in Loops : HandleMessageBegin(i)
    \/ \E i \in Loops : HandlerReturn(i)
    \/ RetryFire

SpecCeilings == InitRunning /\ [][NextCeilings]_vars

\* the same where every loop is scheduled, every handler returns and every
\* retry goroutine wakes up
SpecCeilingsFair ==
    /\ InitRunning
    /\ [][NextCeilings]_vars
    /\ \A i \in Loops :
          /\ WF_vars(HandleMessageBegin(i))
          /\ WF_vars(HandlerReturn(i))
    /\ WF_vars(RetryFire)

(***************************************************************************)
(* The running Worker with a first loop whose handlers may never return,   *)
(* while every other loop is scheduled and its handlers return.            *)
(***************************************************************************)
BlockedLoop == 1

NextPlainJobs ==
    \/ Publish
    \/ PublishWithRetry
    \/ PublishMalformed
    \/ \E i \in Loops : HandleMessageBegin(i)
    \/ \E i \in Loops : HandlerReturn(i)
    \/ RetryFire

SpecJobsBlocked ==
    /\ InitRunning
    /\ [][NextPlainJobs]_vars
    /\ \A i \in Loops \ {BlockedLoop} :
          /\ WF_vars(HandleMessageBegin(i))
          /\ WF_vars(HandlerReturn(i))

(***************************************************************************)
(* The same Worker with a producer that looks at what the Publisher        *)
(* returns.                                                                *)
(***************************************************************************)
NextPublisher ==
    \/ PublishReturns
    \/ PublishWithRetryReturns
    \/ PublishRawReturns
    \/ \E i \in Loops : HandleMessageBegin(i)
    \/ \E i \in Loops : HandlerReturn(i)
    \/ RetryFire

SpecPublisher == InitRunning /\ [][NextPublisher]_vars

(***************************************************************************)
(* The life of the Worker from New to Shutdown, with a publisher that      *)
(* produces few jobs.                                                      *)
(***************************************************************************)
\* a job on its last attempt: no retry follows a failure, so no goroutine
\* of retryJob is ever pending in this specification
LastAttemptJobs(id) ==
    {[NewJob(id, JobTypeAuditCleanup, "good")
        EXCEPT !.Attempts = DefaultMaxRetry - 1]}

PublishFew ==
    /\ nextID <= MaxShutdownJobs
    /\ \E j \in LastAttemptJobs(nextID) :
         PublisherSend("PublishRaw", NoArg, j, FALSE)

NextLifecycle ==
    \/ PublishFew
    \/ \E h \in HandlerNames : RegisterHandler(h)
    \/ Start
    \/ \E i \in Loops : ConsumeRabbitMQ(i)
    \/ \E i \in Loops : ConsumeNoOp(i)
    \/ \E i \in Loops : ConsumeNoOpReturn(i)
    \/ \E i \in Loops : ConsumerStop(i)
    \/ \E i \in Loops : HandleMessageBegin(i)
    \/ \E i \in Loops : HandlerReturn(i)
    \/ ShutdownCall
    \/ DeadlineExpire
    \/ ShutdownReturnNil
    \/ ShutdownReturnTimeout

SpecLifecycle == Init /\ [][NextLifecycle]_vars

(***************************************************************************)
(* A running Worker on RabbitMQ that is shut down while jobs are retried.  *)
(***************************************************************************)
\* a job whose handler fails and that is retried once before its last
\* attempt
RetryableJobs(id) ==
    {NewJobWithRetry(id, JobTypeEmailSend, "bad", DefaultMaxRetry - 1)}

PublishRetryable ==
    /\ nextID <= MaxShutdownJobs
    /\ \E j \in RetryableJobs(nextID) :
         PublisherSend("PublishWithRetry", j.MaxRetry, j, FALSE)

NextStopping ==
    \/ PublishRetryable
    \/ \E i \in Loops : ConsumerStop(i)
    \/ \E i \in Loops : HandleMessageBegin(i)
    \/ \E i \in Loops : HandlerReturn(i)
    \/ RetryFire
    \/ ShutdownCall
    \/ DeadlineExpire
    \/ ShutdownReturnNil
    \/ ShutdownReturnTimeout

SpecStopping == InitRunning /\ [][NextStopping]_vars

(***************************************************************************)
(* Setup of the registry with any sequence of registrations, among them a  *)
(* second handler for a type that has one, then Start and a few jobs.      *)
(***************************************************************************)
InitRegistry ==
    /\ Init
    /\ queueKind = "rabbitmq"
    /\ cfgConcurrency = Concurrency

PublishFewOfAny == nextID <= MaxShutdownJobs /\ Publish

NextRegistry ==
    \/ \E h \in AllHandlers : RegisterHandler(h)
    \/ Start
    \/ \E i \in Loops : ConsumeRabbitMQ(i)
    \/ PublishFewOfAny
    \/ \E i \in Loops : HandleMessageBegin(i)
    \/ \E i \in Loops : HandlerReturn(i)
    \/ RetryFire

SpecRegistry == InitRegistry /\ [][NextRegistry]_vars

(***************************************************************************)
(* Derived views of the state                                              *)
(***************************************************************************)
Published(id) == origin[id] # NoJob

\* the job has a message on the queue, a delivery in a consumer or a retry
\* waiting for its delay
Queued(id) == \E k \in 1..Len(queue) : ~DecodeFails(queue[k]) /\ queue[k].id = id
InFlight(id) == \E i \in Loops : consumer[i] = "handling" /\ cur[i].ID = id
Pending(id) == \E r \in BagToSet(retries) : r.data.id = id
Live(id) == Queued(id) \/ InFlight(id) \/ Pending(id)

Invocations(id) ==
    Cardinality({k \in 1..Len(hist[id]) : hist[id][k].outcome # "unroutable"})
        + Cardinality({i \in Loops : consumer[i] = "handling" /\ cur[i].ID = id})

AlwaysFailed(id) ==
    \A k \in 1..Len(hist[id]) : hist[id][k].outcome \in {"retry", "abandoned"}

Last(seq) == seq[Len(seq)]

RECURSIVE Deliveries(_)
Deliveries(n) == IF n = 0 THEN 0 ELSE Len(hist[n]) + Deliveries(n - 1)

MalformedQueued ==
    Cardinality({k \in 1..Len(queue) : DecodeFails(queue[k])})

(***************************************************************************)
(* C1: a job published with attempts = 0 and ceiling M >= 1 whose handler  *)
(* fails on every delivery is handed to the handler at most M times and    *)
(* republished at most M-1 times; it is abandoned exactly at the M-th      *)
(* failure (attempts = M), after M invocations and M-1 republishes, and    *)
(* nothing of it is left on the queue, in a consumer or pending. Unless a  *)
(* retry publish was refused by the transport, the job is gone from the    *)
(* queue, the consumers and the pending retries only once abandoned.       *)
(***************************************************************************)
RepublishRefused(id) ==
    \E k \in 1..Len(repub[id]) : repub[id][k].res = "err"

C1_ExhaustedAfterM ==
    \A id \in JobIDs :
        (Published(id) /\ origin[id].Attempts = 0 /\ origin[id].MaxRetry >= 1
            /\ handlers[origin[id].Type] # NoHandler /\ AlwaysFailed(id))
        => LET M == origin[id].MaxRetry
           IN  /\ Invocations(id) <= M
               /\ Len(repub[id]) <= M - 1
               /\ \A k \in 1..Len(hist[id]) :
                    hist[id][k].outcome = "abandoned"
                    => /\ k = M
                       /\ hist[id][k].attempts = M
                       /\ Len(hist[id]) = M
                       /\ Len(repub[id]) = M - 1
                       /\ ~Live(id)
               /\ (queueKind = "rabbitmq" /\ ~Live(id) /\ ~RepublishRefused(id))
                  => (Len(hist[id]) = M /\ Last(hist[id]).outcome = "abandoned")

C1_Witness ==
    \E id \in JobIDs :
        /\ Published(id) /\ origin[id].Attempts = 0
        /\ origin[id].MaxRetry = DefaultMaxRetry
        /\ Len(hist[id]) = DefaultMaxRetry
        /\ Last(hist[id]).outcome = "abandoned"
        /\ Len(repub[id]) = DefaultMaxRetry - 1

(***************************************************************************)
(* C2: attempts grows by exactly one per delivery over the life of a job:  *)
(* the k-th delivery of a job first published with attempts a0 runs with   *)
(* attempts = a0 + k (k for a job published with attempts = 0), and the    *)
(* message republished after the k-th failure carries a0 + k.              *)
(***************************************************************************)
C2_AttemptsStepByOne ==
    \A id \in JobIDs :
        Published(id)
        => LET a0 == origin[id].Attempts
           IN  /\ \A k \in 1..Len(hist[id]) : hist[id][k].attempts = a0 + k
               /\ \A k \in 1..Len(repub[id]) : repub[id][k].attempts = a0 + k
               /\ \A i \in Loops :
                    (consumer[i] = "handling" /\ cur[i].ID = id)
                    => cur[i].Attempts = a0 + Len(hist[id]) + 1
               /\ \A r \in BagToSet(retries) :
                    r.data.id = id => r.data.attempts = a0 + Len(hist[id])
               /\ \A k \in 1..Len(queue) :
                    (~DecodeFails(queue[k]) /\ queue[k].id = id)
                    => queue[k].attempts = a0 + Len(hist[id])

C2_Witness ==
    \E id \in JobIDs, i \in Loops :
        /\ Published(id) /\ origin[id].Attempts = 0
        /\ Len(hist[id]) = 2 /\ Len(repub[id]) = 2
        /\ consumer[i] = "handling" /\ cur[i].ID = id /\ cur[i].Attempts = 3

(***************************************************************************)
(* C3: handleMessage returns nil on every path, so the transport           *)
(* acknowledges every delivery it has settled and never rejects or         *)
(* requeues one.                                                           *)
(***************************************************************************)
C3_EveryDeliveryAcked ==
    /\ nacked = 0
    /\ acked = dropped + Deliveries(MaxJobs)

C3_Witness ==
    /\ dropped >= 1
    /\ \E id \in JobIDs :
         /\ \E k \in 1..Len(hist[id]) : hist[id][k].outcome = "retry"
         /\ \E k \in 1..Len(hist[id]) : hist[id][k].outcome \in {"success", "abandoned"}
    /\ acked >= 3

(***************************************************************************)
(* C4: Shutdown cancels the Worker's context when it is called, returns    *)
(* nil only when every consume goroutine launched by Start has exited,     *)
(* returns the timeout error only when its deadline has expired, and no    *)
(* step of Shutdown changes the position of a consume goroutine, of a      *)
(* delivery goroutine or of a handler call in flight.                      *)
(***************************************************************************)
LoopsExited == \A i \in Loops : loop[i] \in {"none", "exited"}

C5_NoSuccessWhileHandlerRuns == ~(shut = "nil" /\ pinned # {})

(***************************************************************************)
(* C6: with handlers that always succeed (email.send with a payload the    *)
(* handler accepts), never more than Concurrency handler invocations are   *)
(* in progress, no job is republished, every job is handled successfully   *)
(* at most once, and a job that is no longer on the queue or in a consumer *)
(* has been handled successfully exactly once (J jobs, J successes).       *)
(***************************************************************************)
AlwaysSucceeds(id) ==
    /\ queueKind = "rabbitmq"      \* NoOpQueue discards what is published
    /\ Published(id)
    /\ origin[id].Type = JobTypeEmailSend /\ origin[id].Payload = "good"
    /\ handlers[JobTypeEmailSend] = "EmailHandler"

C6_WitnessConcurrent ==
    /\ \A id \in JobIDs : AlwaysSucceeds(id)
    /\ running = Concurrency

(***************************************************************************)
(* C7: an undecodable delivery is acknowledged and dropped in one step: it *)
(* leaves the queue for good, no handler runs, no retry is scheduled, the  *)
(* consumer stays ready for the next message, and only a producer (never   *)
(* the Worker or the transport) puts an undecodable message on the queue.  *)
(***************************************************************************)
C7_MalformedDropped ==
    [][ /\ (dropped' # dropped)
           => /\ dropped' = dropped + 1
              /\ MalformedQueued' = MalformedQueued - 1
              /\ Len(queue') = Len(queue) - 1
              /\ acked' = acked + 1
              /\ UNCHANGED <<nacked, retries, hist, running, consumer, cur,
                             loop, repub>>
        /\ (MalformedQueued' > MalformedQueued)
           => (nextID' = nextID + 1 /\ UNCHANGED <<acked, nacked, dropped>>)
      ]_vars

C7_Witness ==
    /\ dropped = 1 /\ MalformedQueued = 0
    /\ \E i \in Loops : consumer[i] = "handling"
    /\ acked = 1

(***************************************************************************)
(* C8: a job whose type has no handler is acknowledged and dropped on its  *)
(* first delivery whatever its attempts and ceiling: one delivery, no      *)
(* handler call, no retry scheduled or published, nothing rejected.        *)
(***************************************************************************)
Unroutable(id) == Published(id) /\ handlers[origin[id].Type] = NoHandler

C8_UnroutableDropped ==
    \A id \in JobIDs :
        (started /\ Unroutable(id))
        => /\ Len(hist[id]) <= 1
           /\ \A k \in 1..Len(hist[id]) : hist[id][k].outcome = "unroutable"
           /\ ~InFlight(id) /\ ~Pending(id) /\ repub[id] = <<>>
           /\ Len(hist[id]) = 1 => ~Live(id)
           /\ nacked = 0

C8_Witness ==
    \E id \in JobIDs :
        /\ started /\ Unroutable(id)
        /\ origin[id].Attempts = 1 /\ CanRetry(IncrementAttempts(origin[id]))
        /\ Len(hist[id]) = 1

(***************************************************************************)
(* C9: the message a retry publishes is the delivered envelope with        *)
(* attempts advanced by one and every other field as delivered, sent to    *)
(* the Worker's exchange and queue: the very Queue.Publish call that       *)
(* PublishRaw makes for that envelope.                                     *)
(***************************************************************************)
SameButAttempts(d, o) ==
    /\ d.ID = o.ID /\ d.Type = o.Type /\ d.Payload = o.Payload
    /\ d.MaxRetry = o.MaxRetry /\ d.CreatedAt = o.CreatedAt
    /\ d.Attempts = o.Attempts + 1

C9_RetryRepublishesEnvelope ==
    /\ lastPublish.by = "retry"
       => /\ lastPublish.call.exchange = Exchange
          /\ lastPublish.call.routingKey = QueueName
          /\ ~DecodeFails(lastPublish.call.body)
          /\ SameButAttempts(DecodeJob(lastPublish.call.body),
                             DecodeJob(lastPublish.from))
          /\ lastPublish.call
                = PublishRawCall([DecodeJob(lastPublish.from) EXCEPT
                                     !.Attempts = @ + 1])
    /\ \A r \in BagToSet(retries) :
          SameButAttempts(DecodeJob(r.data), DecodeJob(r.from))

C9_Witness ==
    /\ lastPublish.by = "retry"
    /\ Len(queue) >= 1 /\ Last(queue) = lastPublish.call.body
    /\ lastPublish.call.body.attempts = 2

(***************************************************************************)
(* C10: after a handler failure the Worker retries exactly when the        *)
(* already incremented attempts is below the ceiling: attempts = ceiling   *)
(* is abandoned, attempts = ceiling - 1 is retried.                        *)
(***************************************************************************)
C10_RetryIffBelowCeiling ==
    \A id \in JobIDs : \A k \in 1..Len(hist[id]) :
        LET e == hist[id][k]
        IN  /\ e.outcome = "retry" => e.attempts < origin[id].MaxRetry
            /\ e.outcome = "abandoned" => e.attempts >= origin[id].MaxRetry

C10_Witness ==
    \E id \in JobIDs : \E k \in 1..Len(hist[id]) :
        /\ k > 1
        /\ hist[id][k].outcome = "abandoned"
        /\ hist[id][k].attempts = origin[id].MaxRetry
        /\ hist[id][k - 1].outcome = "retry"
        /\ hist[id][k - 1].attempts = origin[id].MaxRetry - 1

(***************************************************************************)
(* C11: the delay slept before the republish that follows failed attempt k *)
(* is exactly k*k seconds, k being the attempts value after the increment, *)
(* for every retry waiting for its delay and every retry published.        *)
(***************************************************************************)
IsSquareOf(d, k) ==
    d >= 0 /\ d \div Limb = SquareHi(k) /\ d % Limb = SquareLo(k)

C11_DelayIsSquare ==
    /\ \A r \in BagToSet(retries) :
          /\ r.data.attempts = DecodeJob(r.from).Attempts + 1
          /\ IsSquareOf(r.delay, r.data.attempts)
    /\ \A id \in JobIDs : \A k \in 1..Len(repub[id]) :
          IsSquareOf(repub[id][k].delay, repub[id][k].attempts)

\* the same, for the attempts values whose delay fits a time.Duration
C11_DelayIsSquareInRange ==
    /\ \A r \in BagToSet(retries) :
          /\ r.data.attempts = DecodeJob(r.from).Attempts + 1
          /\ ~DurationOverflows(r.data.attempts)
             => r.delay = r.data.attempts * r.data.attempts
    /\ \A id \in JobIDs : \A k \in 1..Len(repub[id]) :
          ~DurationOverflows(repub[id][k].attempts)
          => repub[id][k].delay = repub[id][k].attempts * repub[id][k].attempts

\* the delays 1 and 4 were slept before the two republishes of one job
C11_WitnessInRange ==
    \E id \in JobIDs :
        /\ Len(repub[id]) = 2
        /\ repub[id][1].delay = 1 /\ repub[id][2].delay = 4

(***************************************************************************)
(* C12: Start launches exactly N consume goroutines, N being the           *)
(* configured concurrency (1 when a value <= 0 was configured), each       *)
(* counted in the WaitGroup, whether the queue declaration succeeded or    *)
(* failed; no goroutine is launched by anything else; every one of them    *)
(* stops only on the Worker's one context and takes its messages from the  *)
(* Worker's one queue.                                                     *)
(***************************************************************************)
ConfiguredLoops == IF cfgConcurrency <= 0 THEN 1 ELSE cfgConcurrency
Launched == {i \in Loops : loop[i] # "none"}

C12_StartLaunchesN ==
    [][ /\ (~started /\ started')
           => /\ declared' \in {"nil", "err"}
              /\ Launched = {}
              /\ Cardinality(Launched') = ConfiguredLoops
              /\ \A i \in Launched' : loop'[i] = "started"
              /\ wg' = wg + ConfiguredLoops
        /\ (Launched' # Launched) => (~started /\ started')
        /\ \A i \in Loops :
              /\ (loop[i] = "blocked" /\ loop'[i] = "exited") => cancelled
              /\ (consumer[i] = "idle" /\ consumer'[i] = "stopped") => cancelled
              /\ (consumer[i] = "idle" /\ consumer'[i] = "handling")
                 => (queue # <<>> /\ queue' = Tail(queue)
                     /\ delivery'[i] = Head(queue))
      ]_vars

\* a Worker configured with concurrency 0 whose queue declaration failed
\* runs its one loop, which is handling a job
C12_Witness ==
    /\ started /\ declared = "err" /\ cfgConcurrency = 0
    /\ Cardinality(Launched) = 1
    /\ consumer[1] = "handling"

\* a Worker configured with concurrency 2 runs both loops
C12_WitnessTwo ==
    /\ started /\ cfgConcurrency = Concurrency
    /\ \A i \in Loops : consumer[i] = "idle"

(***************************************************************************)
(* C13: when the transport cannot begin consuming for a loop that Start    *)
(* launched (the consumer registration fails), Start has returned an error *)
(* to its caller.                                                          *)
(***************************************************************************)
StartupConsumeFailed ==
    \E i \in Loops : queueKind = "rabbitmq" /\ consumeErr[i] = "err"

C13_StartupFailureSurfaced ==
    StartupConsumeFailed => startResult = "err"

\* what the code does: the failure is met only in the consume goroutine,
\* after Start has returned nil
C13_StartReturnsNil ==
    started => startResult = "nil"

(***************************************************************************)
(* C14: the registry holds one handler per type, the one registered last   *)
(* for it: a registration replaces the handler of its own type, leaves     *)
(* the other types alone and cannot fail, and every job handed to a        *)
(* handler is handed to the one registered last for its type.              *)
(***************************************************************************)
C14_LastRegistrationWins ==
    /\ \A t \in JobTypes :
          /\ handlers[t] = lastRegistered[t]
          /\ handlers[t] # NoHandler
             => (handlers[t] \in everRegistered /\ HandlerType(handlers[t]) = t)
          /\ handlers[t] = NoHandler
             => ~\E h \in everRegistered : HandlerType(h) = t
    /\ \A id \in JobIDs : \A k \in 1..Len(hist[id]) :
          hist[id][k].by = lastRegistered[origin[id].Type]

\* both email handlers were registered, EmailHandler before the last
\* registration of the second one; a job EmailHandler would reject was
\* handed to the second one, which accepted it
C14_Witness ==
    /\ {"EmailHandler", SecondEmailHandler} \subseteq everRegistered
    /\ lastRegistered[JobTypeEmailSend] = SecondEmailHandler
    /\ handlers[JobTypeAuditCleanup] = "AuditCleanupHandler"
    /\ \E id \in JobIDs :
          /\ Published(id) /\ origin[id].Type = JobTypeEmailSend
          /\ origin[id].Payload = "bad"
          /\ Len(hist[id]) = 1
          /\ hist[id][1].outcome = "success"
          /\ hist[id][1].by = SecondEmailHandler

(***************************************************************************)
(* C15: a call of Publish or PublishWithRetry makes at most one            *)
(* Queue.Publish call, to the Publisher's exchange and queue, of an        *)
(* envelope with attempts = 0 and max_retry = 3 (Publish) or the ceiling   *)
(* handed in (PublishWithRetry); it returns nil only when that call        *)
(* succeeded and the message is on the queue; when building or encoding    *)
(* the job fails it returns the error without any Queue.Publish call, and  *)
(* when Queue.Publish fails it returns the error and nothing is queued.    *)
(***************************************************************************)
C15_PublisherStep(c) ==
    /\ Len(c.calls) <= 1
    /\ \A k \in 1..Len(c.calls) :
          /\ c.calls[k].exchange = Exchange
          /\ c.calls[k].routingKey = QueueName
          /\ c.calls[k].body.attempts = 0
          /\ c.op = "Publish" => c.calls[k].body.max_retry = 3
          /\ c.op = "PublishWithRetry" => c.calls[k].body.max_retry = c.arg
    /\ c.res = "nil"
       => (Len(c.calls) = 1 /\ queue' = Append(queue, c.calls[1].body))
    /\ c.res # "nil" => queue' = queue
    /\ c.res \in {"failed to create job", "failed to encode job"}
       => c.calls = <<>>
    /\ (Len(c.calls) = 1 /\ queue' = queue) => c.res = "failed to publish job"
    /\ c.res \in {"nil", "failed to create job", "failed to encode job",
                  "failed to publish job"}

C15_PublisherPublishesOnce ==
    [][ (lastCall' # lastCall /\ lastCall'.op \in {"Publish", "PublishWithRetry"})
        => C15_PublisherStep(lastCall') ]_vars

\* PublishWithRetry with ceiling 1 met a transport failure: the error was
\* returned after one Queue.Publish call and nothing is on the queue
C15_Witness ==
    /\ lastCall.op = "PublishWithRetry" /\ lastCall.arg = 1
    /\ lastCall.res = "failed to publish job"
    /\ Len(lastCall.calls) = 1
    /\ lastCall.calls[1].body.max_retry = 1
    /\ queue = <<>> /\ nextID = 1

\* Publish of a payload that cannot be encoded made no Queue.Publish call
C15_WitnessCreate ==
    /\ lastCall.op = "Publish"
    /\ lastCall.res = "failed to create job"
    /\ lastCall.calls = <<>>

\* Publish succeeded: the envelope is the last message of the queue
C15_WitnessSent ==
    /\ lastCall.op = "Publish" /\ lastCall.res = "nil"
    /\ queue # <<>> /\ Last(queue) = lastCall.calls[1].body
    /\ Last(queue).attempts = 0 /\ Last(queue).max_retry = DefaultMaxRetry

(***************************************************************************)
(* C16: decoding the encoding of a job gives back the job: the same id,    *)
(* type, payload, attempts and ceiling, and a creation time that is the    *)
(* same instant (time.Time.Equal). It holds of every job the Publisher     *)
(* built and of every job the Worker holds while its handler runs, and     *)
(* the message of a published job decodes to that job.                     *)
(***************************************************************************)
\* time.Time.Equal: the same instant, whatever the monotonic readings
TimeEqual(t, u) == t.wall = u.wall

JobEqual(a, b) ==
    /\ a.ID = b.ID /\ a.Type = b.Type /\ a.Payload = b.Payload
    /\ a.Attempts = b.Attempts /\ a.MaxRetry = b.MaxRetry
    /\ TimeEqual(a.CreatedAt, b.CreatedAt)

RoundTrip(j) == DecodeJob(Encode(j))

ErrorCauses == {"unmarshal", "deadline exceeded", "exec", "canceled"}

RetriedFailures(id) ==
    Cardinality({k \in 1..Len(hist[id]) : hist[id][k].outcome = "retry"})

PendingRetries(id) ==
    LET rs == {r \in BagToSet(retries) : r.data.id = id}
    IN  IF rs = {} THEN 0 ELSE CopiesIn(CHOOSE r \in rs : TRUE, retries)

C17_AnyHandlerErrorRetries ==
    /\ \A id \in JobIDs :
          /\ \A k \in 1..Len(hist[id]) :
                LET e == hist[id][k]
                IN  /\ e.cause \in ErrorCauses \cup {"nil"}
                    /\ e.cause \in ErrorCauses
                       => e.outcome = IF e.attempts < origin[id].MaxRetry
                                      THEN "retry" ELSE "abandoned"
                    /\ e.cause = "nil" => e.outcome \in {"success", "unroutable"}
          /\ RetriedFailures(id) = Len(repub[id]) + PendingRetries(id)
    /\ acked = dropped + Deliveries(MaxJobs)

\* a job whose payload its handler rejects was retried and then abandoned,
\* and a job whose handler met its deadline was retried
C17_Witness ==
    /\ \E id \in JobIDs :
          /\ Len(hist[id]) = DefaultMaxRetry
          /\ \A k \in 1..Len(hist[id]) : hist[id][k].cause = "unmarshal"
          /\ hist[id][1].outcome = "retry"
          /\ Last(hist[id]).outcome = "abandoned"
    /\ \E id \in JobIDs :
          /\ Len(hist[id]) >= 1
          /\ hist[id][1].cause = "deadline exceeded"
          /\ hist[id][1].outcome = "retry"
    /\ dropped = 0

(***************************************************************************)
(* C18: once a call of Shutdown made after Start has returned nil, the     *)
(* Worker stays stopped (context cancelled, WaitGroup at zero, every       *)
(* consume goroutine exited, none launched again), a later call of         *)
(* Shutdown is accepted and never has to wait (its success branch is       *)
(* ready as long as it is pending), and it returns nil unless the          *)
(* deadline it was handed has expired.                                     *)
(***************************************************************************)
StoppedBy(k) == shutLog[k].res = "nil" /\ shutLog[k].started

C18_ShutdownIdempotent ==
    /\ shut \in {"idle", "waiting", "nil", "timeout"}
    /\ \A k \in 1..Len(shutLog) :
          StoppedBy(k)
          => /\ cancelled /\ wg = 0
             /\ \A i \in Loops : loop[i] \in {"none", "exited"}
             /\ shut = "waiting" => ENABLED ShutdownReturnNil
             /\ \A j \in (k + 1)..Len(shutLog) :
                   shutLog[j].res = "nil" \/ shutLog[j].expired

\* two calls of Shutdown after Start, each returned nil
C18_Witness ==
    /\ started /\ shutCalls = 2 /\ shut = "nil"
    /\ Len(shutLog) = 2
    /\ StoppedBy(1) /\ shutLog[2].res = "nil"
    /\ \E i \in Loops : loop[i] = "exited"

(***************************************************************************)
(* C19: once Shutdown has called w.cancel(), every consumption loop can    *)
(* see it (a loop blocked in Consume can return, an idle consumer can      *)
(* stop), the context of every handler call in flight is done, and a       *)
(* handler call that returned after the cancellation ran with a done       *)
(* context; a cooperative handler returned that context's error.           *)
(***************************************************************************)
DoneCtx == {"canceled", "deadline exceeded"}

C19_SharedCancellation ==
    /\ cancelled <=> shutCalls > 0
    /\ cancelled =>
          \A i \in Loops :
             /\ loop[i] = "blocked" => ENABLED ConsumeNoOpReturn(i)
             /\ consumer[i] = "idle" => ENABLED ConsumerStop(i)
             /\ consumer[i] = "handling"
                => HandlerCtxErrs(handlers[cur[i].Type]) \subseteq DoneCtx
    /\ \A id \in JobIDs : \A k \in 1..Len(hist[id]) :
          LET e == hist[id][k]
          IN  e.stopping /\ e.by # NoHandler
              => /\ e.ctx \in DoneCtx
                 /\ Cooperative(e.by) => e.cause = e.ctx

\* a cooperative handler that was running when Shutdown was called returned
\* the cancellation, while another call of Shutdown was waiting
C19_Witness ==
    /\ shutCalls > 0
    /\ \E id \in JobIDs :
          /\ Len(hist[id]) = 1
          /\ hist[id][1].stopping
          /\ hist[id][1].by = "AuditCleanupHandler"
          /\ hist[id][1].ctx = "canceled"
          /\ hist[id][1].cause = "canceled"
          /\ hist[id][1].outcome = "abandoned"

\* Shutdown was called while a cooperative handler was running
C19_WitnessInFlight ==
    /\ cancelled
    /\ \E i \in pinned :
          /\ consumer[i] = "handling"
          /\ Cooperative(handlers[cur[i].Type])

(***************************************************************************)
(* C20: a consumption loop whose Consume call returned an error has        *)
(* exited and stays exited (nothing launches it again, and on RabbitMQ it  *)
(* has no consumer), the step in which it fails leaves every other loop    *)
(* and its consumer as they were, only cancellation stops a consumer, and  *)
(* the WaitGroup counts exactly the loops that have not exited, so a       *)
(* Shutdown that finds every loop exited is not kept waiting by it.        *)
(***************************************************************************)
FailedLoops == {i \in Loops : consumeErr[i] = "err"}

LiveLoops == {i \in Loops : loop[i] \in {"started", "blocked"}}

C20_ConsumeErrorStep ==
    /\ \A i \in FailedLoops :
          /\ loop[i] = "exited" /\ loop'[i] = "exited"
          /\ consumeErr'[i] = "err"
          /\ queueKind = "rabbitmq" => consumer[i] = "none" /\ consumer'[i] = "none"
    /\ \A i \in Loops :
          consumeErr[i] # "err" /\ consumeErr'[i] = "err"
          => \A j \in Loops \ {i} :
                /\ loop'[j] = loop[j]
                /\ consumer'[j] = consumer[j]
                /\ cur'[j] = cur[j]
                /\ consumeErr'[j] = consumeErr[j]
    /\ \A j \in Loops :
          consumer[j] # "stopped" /\ consumer'[j] = "stopped" => cancelled
    /\ wg = Cardinality(LiveLoops) /\ wg' = Cardinality(LiveLoops')
    /\ shut = "waiting" /\ LiveLoops = {} => ENABLED ShutdownReturnNil
    /\ shut = "waiting" /\ shut' = "timeout" => deadlineExpired

RetryScheduledBy(i) ==
    /\ consumer[i] = "handling"
    /\ consumer'[i] # "handling"
    /\ retries' # retries

C21_DetachedStep ==
    /\ \A i \in Loops :
          RetryScheduledBy(i)
          => /\ consumer'[i] = "idle"
             /\ delivery'[i] = NoMsg
             /\ acked' = acked + 1
             /\ BagCardinality(retries') = BagCardinality(retries) + 1
             /\ queue' = queue
             /\ repub' = repub
    /\ \A i \in Loops :
          consumer[i] = "idle" /\ queue # <<>> => ENABLED HandleMessageBegin(i)

C21_RetryDetached == [][C21_DetachedStep]_vars

\* the retry of one job has not fired, its failed delivery is acknowledged,
\* and meanwhile another job was taken and handled to success
C21_Witness ==
    \E a, b \in JobIDs :
        /\ a # b
        /\ Len(hist[a]) = 1 /\ hist[a][1].outcome = "retry"
        /\ repub[a] = <<>>
        /\ PendingRetries(a) = 1
        /\ origin[b].ID > origin[a].ID
        /\ Len(hist[b]) = 1 /\ hist[b][1].outcome = "success"
        /\ acked = 2
        /\ \A i \in Loops : consumer[i] = "idle"

(***************************************************************************)
(* C22: no step of Shutdown (its call, its deadline, its return) changes   *)
(* the pending retries; a pending retry can fire whatever the position of  *)
(* Shutdown, and its firing is one publish attempt, recorded with its      *)
(* result; Shutdown can return nil as soon as the WaitGroup is at zero,    *)
(* retries pending or not.                                                 *)
(***************************************************************************)
ShutdownStep == shut' # shut \/ shutCalls' # shutCalls \/ shutLog' # shutLog

C22_RetriesStep ==
    /\ ShutdownStep => retries' = retries /\ repub' = repub
    /\ retries # EmptyBag => ENABLED RetryFire
    /\ BagCardinality(retries') < BagCardinality(retries)
       => \E id \in JobIDs :
             /\ Len(repub'[id]) = Len(repub[id]) + 1
             /\ Last(repub'[id]).during = shut
             /\ Last(repub'[id]).res \in {"nil", "err"}
    /\ shut = "waiting" /\ wg = 0 => ENABLED ShutdownReturnNil

C22_RetriesOutliveShutdown == [][C22_RetriesStep]_vars

\* a retry scheduled before Shutdown was called fired after Shutdown had
\* returned nil, and its publish went through
C22_Witness ==
    /\ shut = "nil" /\ Len(shutLog) = 1
    /\ \E id \in JobIDs :
          /\ Len(hist[id]) >= 1
          /\ hist[id][1].outcome = "retry" /\ ~hist[id][1].stopping
          /\ Len(repub[id]) = 1
          /\ repub[id][1].during = "nil"
          /\ repub[id][1].res = "nil"

\* Shutdown has returned nil while a retry was still pending
C22_WitnessPending ==
    /\ shut = "nil"
    /\ retries # EmptyBag

(***************************************************************************)
(* C23: every loop has at most one handler call in flight (the handler     *)
(* calls in flight are exactly the loops that are handling), and messages  *)
(* waiting on the queue are eventually taken although the handler of the   *)
(* first loop may block for ever: the other loops keep taking them.        *)
(***************************************************************************)
HandlingLoops == {i \in Loops : consumer[i] = "handling"}

OneCallPerLoop ==
    /\ running = Cardinality(HandlingLoops)
    /\ \A i \in Loops : (cur[i] # NoJob) <=> (i \in HandlingLoops)

Settled == acked + nacked

C24_LoopStep ==
    \A i \in Loops :
       /\ consumer[i] = "idle" => delivery[i] = NoMsg /\ cur[i] = NoJob
       /\ consumer[i] = "handling"
          => /\ delivery[i] # NoMsg
             /\ IncrementAttempts(DecodeJob(delivery[i])) = cur[i]
       /\ consumer[i] # "handling" /\ consumer'[i] = "handling"
          => /\ consumer[i] = "idle"
             /\ queue # <<>>
             /\ delivery'[i] = Head(queue)
             /\ queue' = Tail(queue)
             /\ Settled' = Settled
       /\ consumer[i] = "handling" /\ consumer'[i] # "handling"
          => /\ consumer'[i] = "idle"
             /\ delivery'[i] = NoMsg
             /\ Settled' = Settled + 1
       /\ consumer[i] = "handling" /\ consumer'[i] = "handling"
          => delivery'[i] = delivery[i] /\ cur'[i] = cur[i]

C24_InOrderPerLoop == [][C24_LoopStep]_vars

\* the first loop has held the first job all along, so the second loop
\* handled both deliveries of the second job, one after the other
C24_Witness ==
    /\ consumer[1] = "handling" /\ cur[1].ID = 1 /\ hist[1] = <<>>
    /\ Len(hist[2]) = 2
    /\ hist[2][1].outcome = "retry"
    /\ hist[2][2].attempts = hist[2][1].attempts + 1
    /\ consumer[2] = "idle"
    /\ acked = 2

(***************************************************************************)
(* C25: the loops that a call of Start launches begin under a context      *)
(* that is not cancelled: in the step in which Start launches them, the    *)
(* Worker's context is not done, whatever was called before.               *)
(* The context is made by New, not by Start, so a Shutdown called before   *)
(* Start leaves Start launching its loops under a cancelled context.       *)
(***************************************************************************)
StartStep == ~started /\ started'

C25_StartUnderLiveContextStep == StartStep => ~cancelled /\ ~cancelled'

C25_LoopsBeginUncancelled == [][C25_StartUnderLiveContextStep]_vars

\* what the code does: Start never touches the context, before or after
C25_StartKeepsContext == [][StartStep => cancelled' = cancelled]_vars

(***************************************************************************)
(* C26: every published job is, at every moment, either at a terminal      *)
(* outcome (handler success, abandoned at its ceiling, dropped as          *)
(* unroutable) or alive (a message on the queue, a delivery in a loop, a   *)
(* retry waiting for its delay), also when Shutdown is called during the   *)
(* backoff and when the transport refuses the retry's publish.             *)
(* The retry goroutine only logs a failed publish, so a job whose          *)
(* republish is refused is neither terminal nor alive.                     *)
(***************************************************************************)
TerminalOutcomes == {"success", "abandoned", "unroutable"}

Terminal(id) ==
    /\ hist[id] # <<>>
    /\ Last(hist[id]).outcome \in TerminalOutcomes

C26_NoJobLost ==
    \A id \in JobIDs : Published(id) => Terminal(id) \/ Live(id)

\* what the code does: a job is lost only through a refused republish
C26_LostOnlyWhenRefused ==
    \A id \in JobIDs :
       Published(id) => Terminal(id) \/ Live(id) \/ RepublishRefused(id)

(***************************************************************************)
(* C27: for a job published with attempts = 0 and ceiling M (any integer), *)
(* the handler is invoked at most max(1, M) times and never with attempts  *)
(* above max(1, M); every republished message of the job carries           *)
(* 1 <= attempts < M; and with M <= 0 a failure of the one invocation      *)
(* abandons the job with no republish.                                     *)
(***************************************************************************)
InvocationCap(id) == IF origin[id].MaxRetry >= 1 THEN origin[id].MaxRetry ELSE 1

\* the attempts carried by every republished message of the job: those
\* published, and those a retry goroutine is about to publish
RepublishedAttempts(id) ==
    {repub[id][k].attempts : k \in 1..Len(repub[id])}
    \cup {r.data.attempts : r \in {x \in BagToSet(retries) : x.data.id = id}}

C27_InvocationsCapped ==
    \A id \in JobIDs :
       Published(id) /\ origin[id].Attempts = 0
       => /\ Invocations(id) <= InvocationCap(id)
          /\ \A k \in 1..Len(hist[id]) :
                hist[id][k].attempts \in 1..InvocationCap(id)
          /\ \A i \in Loops :
                consumer[i] = "handling" /\ cur[i].ID = id
                => cur[i].Attempts \in 1..InvocationCap(id)
          /\ \A a \in RepublishedAttempts(id) :
                1 <= a /\ a < origin[id].MaxRetry
          /\ origin[id].MaxRetry <= 0
             => /\ Len(hist[id]) <= 1
                /\ RepublishedAttempts(id) = {}
                /\ \A k \in 1..Len(hist[id]) :
                      hist[id][k].outcome \in TerminalOutcomes

\* a job with ceiling 2 failed, was republished with attempts = 1, failed
\* again and was abandoned
C27_Witness ==
    \E b \in JobIDs :
       /\ Published(b)
       /\ origin[b].MaxRetry = 2 /\ origin[b].Attempts = 0
       /\ Len(hist[b]) = 2 /\ Last(hist[b]).outcome = "abandoned"
       /\ Len(repub[b]) = 1 /\ repub[b][1].attempts = 1
       /\ ~Live(b)

\* a job with a negative ceiling failed once and was abandoned
C27_WitnessNegative ==
    \E a \in JobIDs :
       /\ Published(a)
       /\ origin[a].MaxRetry < 0 /\ origin[a].Attempts = 0
       /\ Len(hist[a]) = 1 /\ hist[a][1].outcome = "abandoned"
       /\ hist[a][1].attempts = 1
       /\ repub[a] = <<>>
       /\ ~Live(a)

(***************************************************************************)
(* C28: with a transport that hands every message to one callback          *)
(* invocation, each job id has at most one live representation at any      *)
(* moment, counting its messages on the queue, its deliveries being        *)
(* handled and its pending retries; a job at a terminal outcome has none,  *)
(* and the retries of a job never outnumber its retried failures.          *)
(***************************************************************************)
QueuedCount(id) ==
    Cardinality({k \in 1..Len(queue) :
                    ~DecodeFails(queue[k]) /\ queue[k].id = id})

InFlightCount(id) ==
    Cardinality({i \in Loops : consumer[i] = "handling" /\ cur[i].ID = id})

PendingCount(id) ==
    BagCardinality([r \in {x \in BagToSet(retries) : x.data.id = id}
                      |-> CopiesIn(r, retries)])

LiveCount(id) == QueuedCount(id) + InFlightCount(id) + PendingCount(id)

C28_OneRepresentation ==
    \A id \in JobIDs :
       /\ LiveCount(id) <= 1
       /\ Published(id) /\ Terminal(id) => LiveCount(id) = 0
       /\ Len(repub[id]) + PendingCount(id) = RetriedFailures(id)

\* two jobs are alive at once, one as a pending retry and one in a handler,
\* each exactly once, after the first was delivered twice
C28_Witness ==
    \E a, b \in JobIDs :
       /\ a # b
       /\ Len(hist[a]) = 2 /\ Last(hist[a]).outcome = "retry"
       /\ PendingCount(a) = 1 /\ QueuedCount(a) = 0 /\ InFlightCount(a) = 0
       /\ InFlightCount(b) = 1 /\ QueuedCount(b) = 0 /\ PendingCount(b) = 0

(***************************************************************************)
(* C29: once Shutdown has called w.cancel(), no loop begins a handler      *)
(* invocation: no step taken with the context cancelled moves a loop from  *)
(* its select into a handler call.                                         *)
(* The select of the delivery goroutine gives ctx.Done() no priority over  *)
(* a message that is ready, and nothing checks the context between the     *)
(* select and the handler call.                                            *)
(***************************************************************************)
DispatchStep(i) == consumer[i] # "handling" /\ consumer'[i] = "handling"

C29_NoDispatchAfterCancel ==
    [][\A i \in Loops : DispatchStep(i) => ~cancelled]_vars

\* what the code guarantees: a loop that has stopped dispatches no more
C29_NoDispatchAfterStop ==
    [][\A i \in Loops : DispatchStep(i) => consumer[i] = "idle"]_vars

(***************************************************************************)
(* C30: when every loop is scheduled, every handler returns, every retry   *)
(* fires and no republish is refused, every published job eventually      *)
(* reaches a terminal outcome, whatever its handler returns at each call,  *)
(* and it is never delivered more often than its ceiling allows.           *)
(***************************************************************************)
AllRepublishesAccepted == \A id \in JobIDs : ~RepublishRefused(id)

DeliveriesBounded ==
    \A id \in JobIDs :
       Published(id) /\ origin[id].Attempts = 0
       => Len(hist[id]) <= InvocationCap(id)

C30_EveryJobTerminates ==
    /\ []DeliveriesBounded
    /\ []AllRepublishesAccepted
       => \A id \in JobIDs : Published(id) ~> Terminal(id)

\* a job whose handler failed at every call is abandoned after the
\* deliveries the default ceiling allows, every republish accepted, and
\* nothing is left of it
C30_Witness ==
    /\ AllRepublishesAccepted
    /\ \E id \in JobIDs :
          /\ Published(id) /\ Terminal(id) /\ ~Live(id)
          /\ origin[id].Type = JobTypeAuditCleanup
          /\ Len(hist[id]) = DefaultMaxRetry
          /\ Last(hist[id]).outcome = "abandoned"
          /\ Len(repub[id]) = DefaultMaxRetry - 1
    /\ queue = <<>> /\ retries = EmptyBag

====
